---- MODULE Spec2Model ----
(***************************************************************************)
(* Model of src/pitchcount.py: the bullpen usage table pipeline            *)
(*   produce_table = build_pitcher_table ; pad_dates ; print_pitches       *)
(* with its helpers sort_pitcher_table, sum_recents, label_dates and       *)
(* format_none.  The statsapi calls (get_roster, get_games,                *)
(* get_pitch_counts) are the inputs: Init draws their results from small   *)
(* sets.                                                                   *)
(*                                                                         *)
(* Python values.  A timeline cell is an int or the str NO_PITCHES; both   *)
(* are modelled as tagged records so that `type(x) is int` is a test on    *)
(* the tag.  A dict is a record [keys, val]: keys is the insertion order   *)
(* (the order Python iterates in) and val the mapping.  List indices are   *)
(* 0-based as in the source; At(l, k) reads l[k].                          *)
(*                                                                         *)
(* Dates.  A "%Y-%m-%d" string is a record [y, m, d]; a datetime is its    *)
(* proleptic Gregorian ordinal, so that subtraction (.days) and            *)
(* timedelta(days=1) are integer arithmetic and strptime / strftime are    *)
(* real conversions.  Labels are strings; + on str is \o.                  *)
(***************************************************************************)
EXTENDS Integers, Sequences, FiniteSets, TLC

VARIABLES
    pc,             \* position in produce_table
    pitchers,       \* list of tracked pitcher ids (get_position)
    games,          \* dict game -> (game_date, game_num), in insertion order (get_games)
    games_pitches,  \* per game, the list of (player_id, n_pitches) (get_pitch_counts)
    pitcher_games,  \* dict pitcher -> list of cells (build_pitcher_table)
    pitcher_starts, \* dict pitcher -> number of starts
    counter,        \* build_pitcher_table: number of games processed
    dates,          \* pad_dates: list of datetimes
    pitcher_dates,  \* pad_dates: dict pitcher -> padded list of cells
    i,              \* pad_dates: loop index
    printed,        \* print_pitches: the lines printed so far
    raised          \* the exception that ended produce_table, or "" if none

vars == <<pc, pitchers, games, games_pitches, pitcher_games, pitcher_starts,
          counter, dates, pitcher_dates, i, printed, raised>>

-----------------------------------------------------------------------------
(* Global variables of the program                                         *)

NUM_DAYS == 7

LAST_SHORT == 3

LAST_LONG == 5

PyInt(n) == [type |-> "int", val |-> n]

PyStr(s) == [type |-> "str", val |-> s]

NO_PITCHES == PyStr("-")

VERT_BREAK == PyStr("  ")

IsInt(x) == x.type = "int"

-----------------------------------------------------------------------------
(* Python lists and dicts                                                  *)

At(l, k) == l[k + 1]

Min(a, b) == IF a < b THEN a ELSE b

\* list.insert(idx, v) for idx >= 0: an index past the end appends
ListInsert(l, idx, v) ==
    LET k == Min(idx, Len(l))
    IN  SubSeq(l, 1, k) \o <<v>> \o SubSeq(l, k + 1, Len(l))

EmptyDict == [keys |-> <<>>, val |-> <<>>]

HasKey(d, k) == \E n \in 1..Len(d.keys) : d.keys[n] = k

Get(d, k) == d.val[CHOOSE n \in 1..Len(d.keys) : d.keys[n] = k]

\* d[k] = v: a new key goes last, an existing key keeps its place
Put(d, k, v) ==
    IF HasKey(d, k)
    THEN [d EXCEPT !.val[CHOOSE n \in 1..Len(d.keys) : d.keys[n] = k] = v]
    ELSE [keys |-> Append(d.keys, k), val |-> Append(d.val, v)]

-----------------------------------------------------------------------------
(* datetime                                                                *)

IsLeap(y) == (y % 4 = 0) /\ ((y % 100 # 0) \/ (y % 400 = 0))

DaysInMonth(y, m) ==
    IF m = 2 THEN (IF IsLeap(y) THEN 29 ELSE 28)
    ELSE IF m \in {4, 6, 9, 11} THEN 30 ELSE 31

RECURSIVE DaysBeforeMonth(_, _)
DaysBeforeMonth(y, m) ==
    IF m = 1 THEN 0 ELSE DaysBeforeMonth(y, m - 1) + DaysInMonth(y, m - 1)

DaysBeforeYear(y) ==
    LET p == y - 1 IN p * 365 + (p \div 4) - (p \div 100) + (p \div 400)

\* datetime.strptime(s, "%Y-%m-%d"), as the ordinal of the parsed day
strptime(s) == DaysBeforeYear(s.y) + DaysBeforeMonth(s.y, s.m) + s.d

\* date.today() of the modelled run: the window spans a leap day and a month end
Today == [y |-> 2024, m |-> 3, d |-> 3]

OrdinalRange == (strptime(Today) - 2 * NUM_DAYS - 1)..(strptime(Today) + NUM_DAYS + 1)

\* the calendar day of an ordinal (datetime.fromordinal)
FromOrdinal ==
    [o \in OrdinalRange |->
        CHOOSE s \in [y : {Today.y - 1, Today.y}, m : 1..12, d : 1..31] :
            s.d <= DaysInMonth(s.y, s.m) /\ strptime(s) = o]

Digit(n) == <<"0", "1", "2", "3", "4", "5", "6", "7", "8", "9">>[n + 1]

\* the zero-padded two-digit field of %m and %d
TwoDigits(n) == Digit(n \div 10) \o Digit(n % 10)

\* day.strftime("%m-%d")
strftime(day) ==
    LET s == FromOrdinal[day] IN TwoDigits(s.m) \o "-" \o TwoDigits(s.d)

-----------------------------------------------------------------------------
(* sort_pitcher_table                                                      *)

\* faulty variant: an unstable sort, x goes before the elements of equal key
InsertByStartsUnstable(sorted, x, starts) ==
    LET n == Cardinality({j \in 1..Len(sorted) : Get(starts, sorted[j]) < Get(starts, x)})
    IN  SubSeq(sorted, 1, n) \o <<x>> \o SubSeq(sorted, n + 1, Len(sorted))

\* one step of sorted(): x goes after every element whose key is <= its key
InsertByStarts(sorted, x, starts) ==
    LET n == Cardinality({j \in 1..Len(sorted) : Get(starts, sorted[j]) <= Get(starts, x)})
    IN  SubSeq(sorted, 1, n) \o <<x>> \o SubSeq(sorted, n + 1, Len(sorted))

RECURSIVE SortedByStarts(_, _)
\* sorted(keys, key=lambda p: pitcher_starts[p]): ascending and stable
SortedByStarts(keys, starts) ==
    IF keys = <<>> THEN <<>>
    ELSE InsertByStarts(SortedByStarts(SubSeq(keys, 1, Len(keys) - 1), starts),
                        keys[Len(keys)], starts)

\* the dict d rebuilt with its keys in the given order
Reordered(d, keys) == [keys |-> keys, val |-> [n \in 1..Len(keys) |-> Get(d, keys[n])]]

sort_pitcher_table(pg, ps) ==
    LET pitchers_sorted == SortedByStarts(pg.keys, ps)
    IN  [games |-> Reordered(pg, pitchers_sorted), starts |-> Reordered(ps, pitchers_sorted)]

-----------------------------------------------------------------------------
(* build_pitcher_table                                                     *)

RECURSIVE InitTable(_, _, _)
\* lines 138-142: one empty timeline and a zero start count per listed pitcher
InitTable(l, pg, ps) ==
    IF l = <<>> THEN [games |-> pg, starts |-> ps]
    ELSE InitTable(Tail(l), Put(pg, Head(l), <<>>), Put(ps, Head(l), 0))

RECURSIVE AddItems(_, _, _, _)
\* lines 146-156: the appearances of one game, in order; nth counts every item
AddItems(items, nth, pg, ps) ==
    IF nth >= Len(items) THEN [games |-> pg, starts |-> ps]
    ELSE LET item    == At(items, nth)
             pitcher == At(item, 0)
             np      == At(item, 1)
         IN  IF HasKey(pg, pitcher)
             THEN AddItems(items, nth + 1,
                           Put(pg, pitcher, Append(Get(pg, pitcher), PyInt(np))),
                           IF nth = 0 THEN Put(ps, pitcher, Get(ps, pitcher) + 1) ELSE ps)
             ELSE AddItems(items, nth + 1, pg, ps)

\* lines 158-160: a sentinel for every timeline whose length is still `counter`
AddSentinels(pg, cnt) ==
    [pg EXCEPT !.val = [n \in 1..Len(pg.val) |->
        IF Len(pg.val[n]) = cnt THEN Append(pg.val[n], NO_PITCHES) ELSE pg.val[n]]]

-----------------------------------------------------------------------------
(* sum_recents, format_none, label_dates                                   *)

RECURSIVE SumFrom(_, _, _)
\* lines 203-206: the while loop from index k on, adding the int cells to acc
SumFrom(pitch_counts, k, acc) ==
    IF k >= Len(pitch_counts) THEN acc
    ELSE SumFrom(pitch_counts, k + 1,
                 IF IsInt(At(pitch_counts, k)) THEN acc + At(pitch_counts, k).val ELSE acc)

\* faulty variant: the window starts one cell late
sum_recents_short_window(pitch_counts, n_days) ==
    IF n_days < 1
    THEN [exc |-> "n_days must be greater than zero", val |-> 0]
    ELSE IF n_days > Len(pitch_counts)
    THEN [exc |-> "Cannot sum more games than available in player data pull", val |-> 0]
    ELSE [exc |-> "", val |-> SumFrom(pitch_counts, Len(pitch_counts) - n_days + 1, 0)]

\* faulty variant: a window larger than the list is truncated to the list
sum_recents_truncating(pitch_counts, n_days) ==
    IF n_days < 1
    THEN [exc |-> "n_days must be greater than zero", val |-> 0]
    ELSE [exc |-> "", val |-> SumFrom(pitch_counts,
                                      Len(pitch_counts) - Min(n_days, Len(pitch_counts)), 0)]

\* the result is [exc, val]: exc # "" is the exception raised, val the sum returned
sum_recents(pitch_counts, n_days) ==
    IF n_days < 1
    THEN [exc |-> "n_days must be greater than zero", val |-> 0]
    ELSE IF n_days > Len(pitch_counts)
    THEN [exc |-> "Cannot sum more games than available in player data pull", val |-> 0]
    ELSE [exc |-> "", val |-> SumFrom(pitch_counts, Len(pitch_counts) - n_days, 0)]

format_none(n) == IF n = 0 THEN NO_PITCHES ELSE PyInt(n)

RECURSIVE FlagSecondGames(_, _, _)
\* faulty variant: only the second game of a doubleheader is flagged
FlagSecondGames(ds, labels, k) ==
    IF k >= Len(labels) THEN labels
    ELSE IF (k < Len(ds) - 1) /\ At(ds, k) = At(ds, k + 1)
    THEN FlagSecondGames(ds, [labels EXCEPT ![k + 2] = @ \o "(2)"], k + 1)
    ELSE FlagSecondGames(ds, labels, k + 1)

RECURSIVE FlagDoubleheaders(_, _, _)
\* lines 220-223: the loop over range(len(labels)) from index k on
FlagDoubleheaders(ds, labels, k) ==
    IF k >= Len(labels) THEN labels
    ELSE IF (k < Len(ds) - 1) /\ At(ds, k) = At(ds, k + 1)
    THEN FlagDoubleheaders(ds,
            [labels EXCEPT ![k + 1] = @ \o "(1)", ![k + 2] = @ \o "(2)"], k + 1)
    ELSE FlagDoubleheaders(ds, labels, k + 1)

label_dates(ds) ==
    FlagDoubleheaders(ds, [n \in 1..Len(ds) |-> strftime(ds[n])], 0)

-----------------------------------------------------------------------------
(* print_pitches: the lines handed to print(), as lists of column values.  *)
(* The rendering of a line by format_str is text layout and not modelled.  *)

\* str(n) for 0 <= n < 100
Digits(n) == IF n < 10 THEN Digit(n) ELSE TwoDigits(n)

\* pitcher_names of get_position: every name is shorter than 20 characters
pitcher_names(p) == PyStr("Pitcher #" \o Digits(p))

Line(kind, cols) == [kind |-> kind, cols |-> cols]

col_labels(date_labels) ==
    <<PyStr("Pitcher")>> \o [n \in 1..Len(date_labels) |-> PyStr(date_labels[n])]
    \o <<VERT_BREAK>>
    \o <<PyStr("Last " \o Digits(LAST_SHORT)), PyStr("Last " \o Digits(LAST_LONG))>>

row_breaks(date_labels) ==
    <<PyStr("--------------------")>> \o [n \in 1..Len(date_labels) |-> PyStr("--------")]
    \o <<VERT_BREAK>> \o <<PyStr("------"), PyStr("------")>>

RECURSIVE PrintRows(_, _, _, _, _, _)
\* lines 254-268: the rows from the k-th pitcher on; the result is [out, exc]
PrintRows(pd, ps, breaks, k, starter, out) ==
    IF k > Len(pd.keys) THEN [out |-> out, exc |-> ""]
    ELSE LET pitcher      == pd.keys[k]
             pitch_counts == pd.val[k]
             short        == sum_recents(pitch_counts, LAST_SHORT)
             long         == sum_recents(pitch_counts, LAST_LONG)
             row_data     == <<pitcher_names(pitcher)>> \o pitch_counts \o <<VERT_BREAK>>
                             \o <<format_none(short.val), format_none(long.val)>>
             brk          == starter = 0 /\ Get(ps, pitcher) > 0
         IN  IF short.exc # "" THEN [out |-> out, exc |-> short.exc]
             ELSE IF long.exc # "" THEN [out |-> out, exc |-> long.exc]
             ELSE PrintRows(pd, ps, breaks, k + 1, IF brk THEN 1 ELSE starter,
                            (IF brk THEN Append(out, Line("break", breaks)) ELSE out)
                            \o <<Line("row", row_data)>>)

print_pitches(ds, pd, ps) ==
    LET date_labels == label_dates(ds)
        breaks      == row_breaks(date_labels)
    IN  PrintRows(pd, ps, breaks, 1, 0,
                  <<Line("head", col_labels(date_labels)), Line("break", breaks)>>)

-----------------------------------------------------------------------------
(* Inputs: what the statsapi calls of produce_table return                 *)

MaxGames == 2

\* start_date .. end_date of produce_table
Window == (strptime(Today) - NUM_DAYS)..strptime(Today)

\* a schedule entry as get_games stores it: (game_date, game_num)
GameEntries == {<<FromOrdinal[o], n>> : o \in Window, n \in {1, 2}}

\* game_num is 1 on a single-game day and 1, 2 on a doubleheader day
GameNumsConsistent(gs) ==
    /\ \A j, k \in 1..Len(gs) : gs[j] = gs[k] => j = k
    /\ \A j \in 1..Len(gs) :
          At(gs[j], 1) = 2 => \E k \in 1..Len(gs) : gs[k] = <<At(gs[j], 0), 1>>

\* the schedules of at most MaxGames games, in any order
Schedules ==
    {gs \in UNION {[1..n -> GameEntries] : n \in 0..MaxGames} : GameNumsConsistent(gs)}

\* the rosters: pitchers 1 and 2 are tracked, pitcher 3 is on no roster
Rosters == {<<1, 2>>, <<2, 1>>}

\* the pitcher lists of a box score, as (personId, p) in order of appearance
BoxScores ==
    { <<>>,
      <<<<1, 7>>>>,
      <<<<3, 9>>, <<2, 0>>>>,
      <<<<2, 5>>, <<1, 4>>>>,
      <<<<1, 7>>, <<1, 4>>>> }

Init ==
    /\ pc = "start"
    /\ pitchers \in Rosters
    /\ games \in Schedules
    /\ games_pitches \in [1..Len(games) -> BoxScores]
    /\ pitcher_games = EmptyDict
    /\ pitcher_starts = EmptyDict
    /\ counter = 0
    /\ dates = <<>>
    /\ pitcher_dates = EmptyDict
    /\ i = 0
    /\ printed = <<>>
    /\ raised = ""

-----------------------------------------------------------------------------
(* produce_table, step by step                                             *)

\* build_pitcher_table, lines 138-144
BuildSetup ==
    /\ pc = "start"
    /\ LET t == InitTable(pitchers, EmptyDict, EmptyDict)
       IN  /\ pitcher_games' = t.games
           /\ pitcher_starts' = t.starts
    /\ counter' = 0
    /\ pc' = "build"
    /\ UNCHANGED <<pitchers, games, games_pitches, dates, pitcher_dates, i, printed, raised>>

\* build_pitcher_table, lines 145-161: one iteration of the loop over games
BuildGame ==
    /\ pc = "build"
    /\ counter < Len(games_pitches)
    /\ LET t == AddItems(At(games_pitches, counter), 0, pitcher_games, pitcher_starts)
       IN  /\ pitcher_games' = AddSentinels(t.games, counter)
           /\ pitcher_starts' = t.starts
    /\ counter' = counter + 1
    /\ UNCHANGED <<pc, pitchers, games, games_pitches, dates, pitcher_dates, i, printed, raised>>

\* build_pitcher_table, line 163: sort and return
BuildReturn ==
    /\ pc = "build"
    /\ counter >= Len(games_pitches)
    /\ LET t == sort_pitcher_table(pitcher_games, pitcher_starts)
       IN  /\ pitcher_games' = t.games
           /\ pitcher_starts' = t.starts
    /\ pc' = "pad"
    /\ UNCHANGED <<pitchers, games, games_pitches, counter, dates, pitcher_dates, i, printed, raised>>

\* pad_dates, lines 172-177
PadSetup ==
    /\ pc = "pad"
    /\ dates' = [n \in 1..Len(games) |-> strptime(At(games[n], 0))]
    /\ pitcher_dates' = pitcher_games
    /\ i' = 0
    /\ pc' = "padloop"
    /\ UNCHANGED <<pitchers, games, games_pitches, pitcher_games, pitcher_starts, counter,
                   printed, raised>>

\* the loop body of pad_dates with its insertion made otherwise: the date nd goes
\* to index at, the sentinels to index cellAt, and the index moves on by step
PadStepWith(at, nd, cellAt, step) ==
    /\ pc = "padloop"
    /\ i < Len(dates) - 1
    /\ IF At(dates, i + 1) - At(dates, i) > 1
       THEN /\ dates' = ListInsert(dates, at, nd)
            /\ pitcher_dates' = [pitcher_dates EXCEPT !.val =
                   [n \in 1..Len(pitcher_dates.val) |->
                       ListInsert(pitcher_dates.val[n], cellAt, NO_PITCHES)]]
            /\ i' = i + step
       ELSE /\ UNCHANGED <<dates, pitcher_dates>>
            /\ i' = i + 1
    /\ UNCHANGED <<pc, pitchers, games, games_pitches, pitcher_games, pitcher_starts, counter,
                   printed, raised>>

\* faulty variant: the index skips the inserted day, so a longer gap is filled with one day
PadStepNoRescan == PadStepWith(i + 1, At(dates, i) + 1, i + 1, 2)

\* faulty variant: the sentinels go one index before the inserted day
PadStepSentinelEarly == PadStepWith(i + 1, At(dates, i) + 1, i, 1)

\* faulty variant: the inserted day is the day before the later game
PadStepDayBefore == PadStepWith(i + 1, At(dates, i + 1) - 1, i + 1, 1)

\* faulty variant: the day and the sentinels go after the later game
PadStepInsertAfter == PadStepWith(i + 2, At(dates, i) + 1, i + 2, 1)

\* pad_dates, lines 178-186: one iteration of the while loop
PadStep ==
    /\ pc = "padloop"
    /\ i < Len(dates) - 1
    /\ LET diff == At(dates, i + 1) - At(dates, i)
       IN  IF diff > 1
           THEN /\ dates' = ListInsert(dates, i + 1, At(dates, i) + 1)
                /\ pitcher_dates' = [pitcher_dates EXCEPT !.val =
                       [n \in 1..Len(pitcher_dates.val) |->
                           ListInsert(pitcher_dates.val[n], i + 1, NO_PITCHES)]]
           ELSE UNCHANGED <<dates, pitcher_dates>>
    /\ i' = i + 1
    /\ UNCHANGED <<pc, pitchers, games, games_pitches, pitcher_games, pitcher_starts, counter,
                   printed, raised>>

\* pad_dates, line 187
PadReturn ==
    /\ pc = "padloop"
    /\ ~(i < Len(dates) - 1)
    /\ pc' = "print"
    /\ UNCHANGED <<pitchers, games, games_pitches, pitcher_games, pitcher_starts, counter,
                   dates, pitcher_dates, i, printed, raised>>

\* print_pitches, called at line 291; an exception of sum_recents ends the run
PrintPitches ==
    /\ pc = "print"
    /\ LET r == print_pitches(dates, pitcher_dates, pitcher_starts)
       IN  /\ printed' = r.out
           /\ raised' = r.exc
           /\ pc' = IF r.exc = "" THEN "done" ELSE "error"
    /\ UNCHANGED <<pitchers, games, games_pitches, pitcher_games, pitcher_starts, counter,
                   dates, pitcher_dates, i>>

Next ==
    \/ BuildSetup
    \/ BuildGame
    \/ BuildReturn
    \/ PadSetup
    \/ PadStep
    \/ PadReturn
    \/ PrintPitches

Spec == Init /\ [][Next]_vars

-----------------------------------------------------------------------------
(* Vocabulary of the properties                                            *)

GameDay(k) == strptime(At(games[k], 0))

GameNum(k) == At(games[k], 1)

NumGames == Len(games)

\* the games are listed oldest to newest
Chronological == \A k \in 1..(NumGames - 1) : GameDay(k) <= GameDay(k + 1)

\* oldest to newest, and the games of a doubleheader by game number
InGameOrder ==
    /\ Chronological
    /\ \A k \in 1..(NumGames - 1) : GameDay(k) = GameDay(k + 1) => GameNum(k) < GameNum(k + 1)

\* the gameless days between the k-th game and the next
GapDays(k) ==
    IF GameDay(k + 1) - GameDay(k) > 1 THEN GameDay(k + 1) - GameDay(k) - 1 ELSE 0

RECURSIVE SlotOf(_)
\* where the k-th game belongs in the padded lists (from 1): after the earlier
\* games and their gap days
SlotOf(k) == IF k = 1 THEN 1 ELSE SlotOf(k - 1) + 1 + GapDays(k - 1)

GameSlots == {SlotOf(k) : k \in 1..NumGames}

\* the game number of a slot, 0 for a gap day
SlotNum(j) ==
    IF j \in GameSlots THEN GameNum(CHOOSE k \in 1..NumGames : SlotOf(k) = j) ELSE 0

Built == pc # "start"

Sorted == pc \in {"pad", "padloop", "print", "done", "error"}

Padding == pc = "padloop"

Padded == pc \in {"print", "done", "error"}

Printed == pc \in {"done", "error"}

Tracked == 1..Len(pitcher_games.keys)

\* every list of cells of the state
Timelines ==
    {pitcher_games.val[n] : n \in 1..Len(pitcher_games.val)}
    \cup {pitcher_dates.val[n] : n \in 1..Len(pitcher_dates.val)}

CellValue(c) == IF IsInt(c) THEN c.val ELSE 0

RECURSIVE TailSum(_, _)
\* the int cells among the last n cells of tl, added up from the newest cell back
TailSum(tl, n) ==
    IF n = 0 THEN 0
    ELSE CellValue(tl[Len(tl)]) + TailSum(SubSeq(tl, 1, Len(tl) - 1), n - 1)

ZeroFilled(tl) == [k \in 1..Len(tl) |-> IF IsInt(tl[k]) THEN tl[k] ELSE PyInt(0)]

\* the k-th game's box score lists the pitcher
Appears(p, k) == \E a \in 1..Len(games_pitches[k]) : games_pitches[k][a][1] = p

PitchesIn(p, k) ==
    games_pitches[k][CHOOSE a \in 1..Len(games_pitches[k]) : games_pitches[k][a][1] = p][2]

\* the date labels of the printed heading
Label(j) == printed[1].cols[j + 1].val

RowLines == {j \in 1..Len(printed) : printed[j].kind = "row"}

WindowError == "Cannot sum more games than available in player data pull"

-----------------------------------------------------------------------------
(* The properties                                                          *)

\* C1 - Alignment invariant: while pad_dates loops and after it returns, the
\* date list and every tracked pitcher's timeline have the same length.
C1_Alignment ==
    (Padding \/ Padded) =>
        \A n \in 1..Len(pitcher_dates.val) : Len(pitcher_dates.val[n]) = Len(dates)

\* C2 - Density invariant: for a chronological game list, adjacent slots of the
\* padded date list with distinct dates are one day apart, and two games d >= 1
\* days apart have exactly d - 1 slots strictly between their dates.
C2_Density ==
    (Padded /\ Chronological) =>
        /\ \A j \in 1..(Len(dates) - 1) :
              dates[j + 1] # dates[j] => dates[j + 1] - dates[j] = 1
        /\ \A k \in 1..(NumGames - 1) :
              GameDay(k + 1) - GameDay(k) >= 1 =>
                  Cardinality({j \in 1..Len(dates) :
                                   GameDay(k) < dates[j] /\ dates[j] < GameDay(k + 1)})
                  = GameDay(k + 1) - GameDay(k) - 1

C2_Witness ==
    /\ Padded /\ Chronological
    /\ \E k \in 1..(NumGames - 1) : GameDay(k + 1) - GameDay(k) >= 3
    /\ Len(dates) >= 4

\* C3 - Gap cells and data preservation: after pad_dates the k-th game sits at its
\* slot with every pitcher's k-th cell of build_pitcher_table, and every other
\* slot is a gap day holding NO_PITCHES for every pitcher.
C3_GapCellsAndData ==
    Padded =>
        /\ GameSlots \subseteq 1..Len(dates)
        /\ \A k \in 1..NumGames : dates[SlotOf(k)] = GameDay(k)
        /\ \A n \in Tracked :
              /\ \A k \in 1..NumGames :
                    pitcher_dates.val[n][SlotOf(k)] = pitcher_games.val[n][k]
              /\ \A j \in (1..Len(dates)) \ GameSlots :
                    pitcher_dates.val[n][j] = NO_PITCHES

C3_Witness ==
    /\ Padded
    /\ \E k \in 1..(NumGames - 1) :
          /\ GapDays(k) >= 2
          /\ \E n \in Tracked :
                /\ IsInt(pitcher_dates.val[n][SlotOf(k)])
                /\ IsInt(pitcher_dates.val[n][SlotOf(k + 1)])
                /\ pitcher_dates.val[n][SlotOf(k) + 1] = NO_PITCHES

\* C4 (as claimed) - Calendar coverage of the trailing window: when games were
\* fetched, the padded date list contains every calendar day of
\* [today - NUM_DAYS, today], the days before the first game and after the last
\* game included.
C4_WindowCoverage ==
    (Padded /\ NumGames >= 1) =>
        \A day \in Window : \E j \in 1..Len(dates) : dates[j] = day

\* C4 (amended) - for a chronological game list the padded date list holds the
\* days from the first game's date to the last game's date and no other day (no
\* day at all without games), and the heading has one column per slot.
C4_GameSpanCoverage ==
    /\ (Padded /\ Chronological) =>
          {dates[j] : j \in 1..Len(dates)} =
              IF NumGames = 0 THEN {} ELSE GameDay(1)..GameDay(NumGames)
    /\ Printed => Len(printed[1].cols) = Len(dates) + 4

C4_Witness ==
    /\ Printed /\ Chronological /\ NumGames >= 2
    /\ GameDay(1) > strptime(Today) - NUM_DAYS
    /\ GameDay(NumGames) < strptime(Today)
    /\ Len(dates) > NumGames

\* C5 - Doubleheader preservation: two consecutive games of one date stay in
\* adjacent slots in input order with no gap day between them, the first is
\* labelled "(1)" and the second "(2)", and a slot whose date no neighbour shares
\* carries the bare date.
C5_Doubleheader ==
    Printed =>
        /\ \A k \in 1..(NumGames - 1) :
              GameDay(k) = GameDay(k + 1) =>
                  LET s == SlotOf(k)
                  IN  /\ s + 1 <= Len(dates)
                      /\ dates[s] = GameDay(k)
                      /\ dates[s + 1] = GameDay(k + 1)
                      /\ \A n \in Tracked :
                            /\ pitcher_dates.val[n][s] = pitcher_games.val[n][k]
                            /\ pitcher_dates.val[n][s + 1] = pitcher_games.val[n][k + 1]
                      /\ Label(s) = strftime(GameDay(k)) \o "(1)"
                      /\ Label(s + 1) = strftime(GameDay(k)) \o "(2)"
        /\ \A j \in 1..Len(dates) :
              (/\ j > 1 => dates[j - 1] # dates[j]
               /\ j < Len(dates) => dates[j + 1] # dates[j])
              => Label(j) = strftime(dates[j])

C5_Witness ==
    /\ Printed
    /\ \E k \in 1..(NumGames - 1) : GameDay(k) = GameDay(k + 1)

\* C6 - Sentinel non-contribution: for every timeline (as built, and as padded)
\* and 1 <= N <= its length,
\* sum_recents returns the sum of the int cells among the last N cells, the same
\* as on the timeline with 0 for every sentinel, and the result is a number; the
\* printed row carries these sums through format_none.
C6_SentinelNonContribution ==
    /\ pc \in {"pad", "print"} =>
          \A tl \in Timelines : \A N \in 1..Len(tl) :
              LET r == sum_recents(tl, N)
              IN  /\ r.exc = ""
                  /\ r.val \in Nat
                  /\ r.val = TailSum(tl, N)
                  /\ r = sum_recents(ZeroFilled(tl), N)
    /\ Printed =>
          \A j \in RowLines :
              LET cols == printed[j].cols
                  tl   == SubSeq(cols, 2, Len(cols) - 3)
              IN  /\ cols[Len(cols) - 1] = format_none(TailSum(tl, LAST_SHORT))
                  /\ cols[Len(cols)] = format_none(TailSum(tl, LAST_LONG))

C6_Witness ==
    /\ pc = "done"
    /\ \E n \in 1..Len(pitcher_dates.val) :
          LET tl == pitcher_dates.val[n]
          IN  /\ tl[Len(tl) - 1] = NO_PITCHES
              /\ sum_recents(tl, LAST_SHORT).val > 0
              /\ \E j \in RowLines : SubSeq(printed[j].cols, 2, Len(tl) + 1) = tl

\* C7 - Window bound: sum_recents raises for every N above the timeline's length,
\* and print_pitches ends with that exception, printing no row for the pitcher,
\* when an aligned timeline is shorter than LAST_SHORT or LAST_LONG.
C7_WindowBound ==
    /\ \A tl \in Timelines : \A N \in (Len(tl) + 1)..(Len(tl) + NUM_DAYS) :
          sum_recents(tl, N).exc = WindowError
    /\ Printed =>
          /\ \A j \in RowLines : Len(printed[j].cols) - 4 >= LAST_LONG
          /\ (\E n \in 1..Len(pitcher_dates.val) : Len(pitcher_dates.val[n]) < LAST_LONG)
                => (pc = "error" /\ raised = WindowError)
          /\ pc = "done" => Cardinality(RowLines) = Len(pitcher_dates.keys)

C7_Witness ==
    /\ pc = "error"
    /\ \E n \in 1..Len(pitcher_dates.val) :
          /\ Len(pitcher_dates.val[n]) >= LAST_SHORT
          /\ Len(pitcher_dates.val[n]) < LAST_LONG

\* C8 - Sort order and stability: the table returned by build_pitcher_table lists
\* the pitchers by ascending start count, equal counts in roster order, no pitcher
\* without a start after one with a start, and sorting it again changes nothing.
C8_SortOrder ==
    Sorted =>
        LET keys      == pitcher_games.keys
            Starts(p) == Get(pitcher_starts, p)
            Roster(p) == CHOOSE n \in 1..Len(pitchers) : pitchers[n] = p
        IN  /\ pitcher_starts.keys = keys
            /\ {keys[a] : a \in 1..Len(keys)} = {pitchers[a] : a \in 1..Len(pitchers)}
            /\ \A a \in 1..Len(keys) :
                  Starts(keys[a]) =
                      Cardinality({k \in 1..NumGames :
                          games_pitches[k] # <<>> /\ games_pitches[k][1][1] = keys[a]})
            /\ \A a, b \in 1..Len(keys) :
                  a < b =>
                      /\ Starts(keys[a]) <= Starts(keys[b])
                      /\ Starts(keys[a]) = Starts(keys[b]) => Roster(keys[a]) < Roster(keys[b])
                      /\ ~(Starts(keys[a]) > 0 /\ Starts(keys[b]) = 0)
            /\ sort_pitcher_table(pitcher_games, pitcher_starts)
                   = [games |-> pitcher_games, starts |-> pitcher_starts]

C8_Witness ==
    /\ pc = "pad"
    /\ pitchers = <<2, 1>>
    /\ pitcher_games.keys = <<2, 1>>
    /\ Get(pitcher_starts, 1) = 1
    /\ Get(pitcher_starts, 2) = 1

\* C9 (as claimed) - Calendar ordering: for every game list, sorted by date or
\* not, the padded date list is non-decreasing and slots of one date are in
\* ascending game number.
C9_CalendarOrdered ==
    Padded =>
        \A j \in 1..(Len(dates) - 1) :
            /\ dates[j] <= dates[j + 1]
            /\ dates[j] = dates[j + 1] => SlotNum(j) < SlotNum(j + 1)

\* C9 (amended) - for a game list given oldest to newest with doubleheader games
\* in game-number order, the padded date list is non-decreasing and slots of one
\* date are in ascending game number; pad_dates keeps the order of its input.
C9_OrderKept ==
    (Padded /\ InGameOrder) =>
        /\ \A k \in 1..NumGames : SlotOf(k) <= Len(dates) /\ dates[SlotOf(k)] = GameDay(k)
        /\ \A j \in 1..(Len(dates) - 1) :
              /\ dates[j] <= dates[j + 1]
              /\ dates[j] = dates[j + 1] => SlotNum(j) < SlotNum(j + 1)

C9_Witness ==
    /\ Padded /\ InGameOrder
    /\ \E k \in 1..(NumGames - 1) : GameDay(k) = GameDay(k + 1)

\* C10 - One entry per game: after k games of build_pitcher_table every tracked
\* pitcher's timeline has length k, and its cell for a game is the pitcher's pitch
\* count in that game if the box score lists the pitcher, else NO_PITCHES.
C10_OneEntryPerGame ==
    Built =>
        \A n \in Tracked :
            /\ Len(pitcher_games.val[n]) = counter
            /\ \A k \in 1..counter :
                  pitcher_games.val[n][k] =
                      IF Appears(pitcher_games.keys[n], k)
                      THEN PyInt(PitchesIn(pitcher_games.keys[n], k))
                      ELSE NO_PITCHES

====
